---- MODULE Spec2Model ----
(***************************************************************************)
(* A model of andes: the batch scheduler and case lifecycle of             *)
(* andes/main.py (main, run) and the service variables of                  *)
(* andes/core/service.py (ServiceBase, Service, ExtService).               *)
(*                                                                         *)
(* Spec        main() with its execution units, each unit running run()    *)
(* SpecRun     one case run in-process, with every option of run()         *)
(* SpecFiles   main() resolving a list of file names into the cases it     *)
(*             runs                                                        *)
(* SpecCache   a sequence of main() invocations sharing the cache file of  *)
(*             prepare()                                                   *)
(* SpecClean   remove_output() going through the working directory         *)
(* SpecLive    a batch whose units all end, with fair scheduling           *)
(* SpecService the service objects: construction, owner binding, the n     *)
(*             property and ExtService.link_external                       *)
(***************************************************************************)
EXTENDS Integers, Sequences, FiniteSets, TLC

(* ------------------------------ bounds --------------------------------- *)

\* the largest number of valid cases a run of main() resolves
MaxCases == 3

\* the largest worker count (--ncpu)
MaxNcpu == 2

\* the longest list of file names given on the command line
MaxNames == 2

\* the largest number of main() invocations that follow each other
MaxRuns == 3

\* the largest number of entries of the working directory
MaxFiles == 2

(* ------------------------ logging levels (-v) -------------------------- *)

DEBUG == 10

INFO == 20

WARNING == 30

ERROR == 40

CRITICAL == 50

\* choices of --verbose
Levels == {DEBUG, INFO, WARNING, ERROR, CRITICAL}

\* the stream handler does not exist before config_logger
NoHandler == 0

(* ------------------------------ main state ----------------------------- *)

VARIABLES
    verbose,      \* args['verbose']
    ncpu,         \* args['ncpu']
    filename,     \* args['filename']: the file names and patterns given
    options,      \* args: what main() and run() branch on
    pkl,          \* os.path.isfile(pkl_path): the cache file of prepare() exists
    prepLog,      \* history: per main() invocation, what it did about prepare()
    valid_cases,  \* the list valid_cases of main()
    ncases,       \* len(valid_cases)
    ran,          \* history: the cases handed to run(), in order
    mpc,          \* where main() is
    streamLevel,  \* logger.handlers[0].level
    idx,          \* the loop index of main()'s launch loop
    jobs,         \* the list jobs of main(): launched, not yet joined by a barrier
    jpos,         \* the position of the join loop in jobs
    started,      \* units whose Process was started
    joined,       \* units whose Process was joined
    batches,      \* history: the size of jobs at each completed join barrier
    upc,          \* per unit: where its run() is
    calls         \* per unit, history: the calls run() made, with their results

mainvars == <<verbose, ncpu, filename, options, pkl, prepLog, valid_cases,
              ncases, ran, mpc, streamLevel, idx, jobs, jpos, started, joined,
              batches, upc, calls>>

\* the indices enumerate(valid_cases) can give
Units == 0 .. (MaxCases - 1)

\* -r/--routine: None (power flow only), 'tds' or 'eig'
Routines == {"none", "tds", "eig"}

\* args, as far as main() and run() branch on it; noncomp: --edit-config or
\* --license was asked for, the two requests main() serves before --clean
Options == [routine : Routines, exit : BOOLEAN, dump : BOOLEAN, noncomp : BOOLEAN,
            clean : BOOLEAN, save_config : BOOLEAN,
            prepare : BOOLEAN, profile : BOOLEAN, no_output : BOOLEAN]

\* the ways a run() ends: return None, return system, an exception, or a
\* routine that never returns
Returned == {"ret_none", "ret_system"}

Terminated == Returned \cup {"raised"}

Call(op, res) == [op |-> op, res |-> res]

\* the names of the calls a unit has completed, in order
Ops(i) == [p \in 1 .. Len(calls[i]) |-> calls[i][p].op]

Called(i, op) == \E p \in 1 .. Len(calls[i]) : calls[i][p].op = op

NCalls(i, op) == Cardinality({p \in 1 .. Len(calls[i]) : calls[i][p].op = op})

(* ---------------------------- remove_output() ------------------------- *)

VARIABLES
    listing,  \* os.listdir(cwd): the names in the working directory
    rpc,      \* where remove_output() is
    rpos,     \* the position of its loop in listing
    found,    \* its local found
    rlog,     \* history: per os.remove(file), the position, outcome and log line
    rret      \* what remove_output() returned

cleanvars == <<listing, rpc, rpos, found, rlog, rret>>

\* the endings a name in the working directory can have: the five that
\* remove_output() tests for, and two it does not
Endings == {"_eig.txt", "_out.txt", "_out.lst", "_out.dat", "_prof.txt",
            "_out.csv", ".txt"}

\* a name: what it begins with and what it ends with
FileName(stem, ending) == [stem |-> stem, ending |-> ending]

DirNames == {FileName("case", e) : e \in Endings}

\* file.endswith(suffix)
endswith(file, suffix) == file.ending = suffix

\* a remove_output() that leaves the time-domain data and the profile
IsOutput_ReportsOnly(file) ==
    endswith(file, "_eig.txt") \/ endswith(file, "_out.txt")

\* the test of the loop of remove_output()
IsOutput(file) ==
    \/ endswith(file, "_eig.txt")
    \/ endswith(file, "_out.txt")
    \/ endswith(file, "_out.lst")
    \/ endswith(file, "_out.dat")
    \/ endswith(file, "_prof.txt")

\* what os.remove(file) can raise: the file is protected, is gone by now,
\* or is a directory
RemoveErrors == {"PermissionError", "FileNotFoundError", "IsADirectoryError"}

\* the outcomes of os.remove(file)
RemoveOutcomes == {"ok"} \cup RemoveErrors

\* an except clause that lets every error of os.remove through
Caught_Nothing(exc) == FALSE

\* except IOError: IOError is OSError, the base class of every error
\* os.remove raises
Caught(exc) == exc \in RemoveErrors \cup {"OSError", "IOError"}

\* the line logged after os.remove(file)
RemoveLine(outcome) == IF outcome = "ok" THEN "removed" ELSE "error"

Attempt(k, outcome) ==
    [pos |-> k, outcome |-> outcome,
     line |-> IF outcome = "ok" \/ Caught(outcome)
              THEN RemoveLine(outcome) ELSE "none"]

\* one pass of for file in os.listdir(cwd)
CleanStep ==
    /\ rpc = "loop"
    /\ rpos <= Len(listing)
    /\ IF IsOutput(listing[rpos])
       THEN /\ found' = TRUE
            /\ \E outcome \in RemoveOutcomes :
                   /\ rlog' = Append(rlog, Attempt(rpos, outcome))
                   /\ IF outcome = "ok" \/ Caught(outcome)
                      THEN rpc' = "loop" /\ rpos' = rpos + 1
                      ELSE rpc' = "raised" /\ UNCHANGED rpos
       ELSE /\ rpos' = rpos + 1
            /\ UNCHANGED <<found, rlog, rpc>>
    /\ UNCHANGED <<listing, rret>>

\* if not found: logger.info(...) ; return True
CleanReturn ==
    /\ rpc = "loop"
    /\ rpos > Len(listing)
    /\ rpc' = "returned"
    /\ rret' = "True"
    /\ UNCHANGED <<listing, rpos, found, rlog>>

\* remove_output() is not called, in an empty working directory
CleanIdle ==
    /\ listing = <<>>
    /\ rpc = "idle"
    /\ rpos = 1
    /\ found = FALSE
    /\ rlog = <<>>
    /\ rret = "None"

(* -------------------------------- run() -------------------------------- *)

\* a run() that does not look at what guess() returned
AfterGuess_Ignored(ok) == "parse"

\* if not andes.io.guess(system): return
AfterGuess(ok) == IF ok THEN "parse" ELSE "ret_none"

\* a run() that goes from parse() to the power flow, setup() left out
AfterParse_NoSetup(ok) == IF ok THEN "pflow" ELSE "ret_none"

\* if not andes.io.parse(system): return ; system.setup()
AfterParse(ok) == IF ok THEN "setup" ELSE "ret_none"

\* a run() that does not look at the exit option
AfterDump_NoExit(opt) == "pflow"

\* if options.get('exit'): return system ; system.PFlow.nr()
AfterDump(opt) == IF opt.exit THEN "ret_system" ELSE "pflow"

\* a run() that never writes the dump
AfterSetup_NoDump(opt) == AfterDump(opt)

\* if options.get('dump', '') != '': andes.io.xlsx.write(...)
AfterSetup(opt) == IF opt.dump THEN "dump" ELSE AfterDump(opt)

\* a run() that never reports the profile
AfterRoutine_NoProfile(opt) == "ret_system"

\* if profile: pr.disable() and the report ; return system
AfterRoutine(opt) == IF opt.profile THEN "profile" ELSE "ret_system"

\* a run() that goes on to the time-domain routine whatever was asked for
AfterPFlow_AlwaysTDS(opt) == "tds"

\* routine = options.get('routine'); the result of nr() is not looked at
AfterPFlow(opt) ==
    CASE opt.routine = "tds" -> "tds"
      [] opt.routine = "eig" -> "eig"
      [] OTHER -> AfterRoutine(opt)

\* if system.files.no_output: the first 40 lines go to sys.stdout (and an
\* empty string to the logger); else 999 lines go to system.files.prof
ProfileSink(opt) == IF opt.no_output THEN "prof_stdout" ELSE "prof_file"

Step(i, pc, call) ==
    /\ upc' = [upc EXCEPT ![i] = pc]
    /\ calls' = [calls EXCEPT ![i] = Append(@, call)]
    /\ UNCHANGED cleanvars
    /\ UNCHANGED <<verbose, ncpu, filename, options, pkl, prepLog, valid_cases,
                   ncases, ran, mpc, streamLevel, idx, jobs, jpos, started,
                   joined, batches>>

RunGuess(i) ==
    /\ upc[i] = "guess"
    /\ \E ok \in BOOLEAN :
           Step(i, AfterGuess(ok), Call("guess", IF ok THEN "ok" ELSE "fail"))

RunParse(i) ==
    /\ upc[i] = "parse"
    /\ \E ok \in BOOLEAN :
           Step(i, AfterParse(ok), Call("parse", IF ok THEN "ok" ELSE "fail"))

\* system.setup() returns, or raises a link-resolution error
RunSetup(i) ==
    /\ upc[i] = "setup"
    /\ \/ Step(i, AfterSetup(options), Call("setup", "ok"))
       \/ Step(i, "raised", Call("setup", "raise"))

RunDump(i) ==
    /\ upc[i] = "dump"
    /\ Step(i, AfterDump(options), Call("dump", "ok"))

\* system.PFlow.nr() converges or not
RunPFlow(i) ==
    /\ upc[i] = "pflow"
    /\ \E conv \in BOOLEAN :
           Step(i, AfterPFlow(options),
                Call("pflow", IF conv THEN "ok" ELSE "nonconv"))

RunTDS(i) ==
    /\ upc[i] = "tds"
    /\ Step(i, AfterRoutine(options), Call("tds", "ok"))

RunEIG(i) ==
    /\ upc[i] = "eig"
    /\ Step(i, AfterRoutine(options), Call("eig", "ok"))

\* pr.disable() ; pstats.Stats(pr, stream=...).print_stats(nlines)
RunProfile(i) ==
    /\ upc[i] = "profile"
    /\ Step(i, "ret_system", Call(ProfileSink(options), "ok"))

\* a solver routine that never returns: nothing in run() or main() times out
RunHang(i) ==
    /\ upc[i] \in {"pflow", "tds", "eig"}
    /\ upc' = [upc EXCEPT ![i] = "hung"]
    /\ UNCHANGED cleanvars
    /\ UNCHANGED <<verbose, ncpu, filename, options, pkl, prepLog, valid_cases,
                   ncases, ran, mpc, streamLevel, idx, jobs, jpos, started,
                   joined, batches, calls>>

(* -------------------------------- main() ------------------------------- *)

\* config_logger(..., stream_level=args.get('verbose', logging.INFO)): the
\* stream handler is made, at that level, if the logger has no handler yet;
\* a logger that has handlers is left as it is
config_logger(handler, level) == IF handler = NoHandler THEN level ELSE handler

\* a barrier test that only knows the final case
BarrierDue_OnlyFinal(i, n, k) == (i = k - 1)

\* a barrier test that forgets the final case
BarrierDue_NoFinal(i, n, k) == (i % n = n - 1)

\* if (idx % ncpu == ncpu - 1) or (idx == len(valid_cases) - 1)
BarrierDue(i, n, k) == (i % n = n - 1) \/ (i = k - 1)

\* a join that does not wait (a join with a timeout)
JoinReady_NoWait(pc) == TRUE

\* a join that returns only for a unit whose run() returned
JoinReady_OnlyReturned(pc) == pc \in Returned

\* job.join() returns once the unit's process has ended, however it ended
JoinReady(pc) == pc \in Terminated

\* a join that hands the unit's exception to the scheduler
JoinRaises_Propagated(pc) == (pc = "raised")

\* job.join() never re-raises what the unit raised
JoinRaises(pc) == FALSE

\* logger.handlers[0].setLevel(logging.WARNING)
BatchLevel == WARNING

\* logger.handlers[0].setLevel(logging.INFO)
RestoredLevel == INFO

\* a main() that regenerates only when told to
NeedPrepare_FlagOnly(flag, exists) == flag

\* if args.get('prepare') is True or (not os.path.isfile(pkl_path))
NeedPrepare(flag, exists) == flag \/ ~exists

\* system.prepare() leaves the cache file at pkl_path
AfterPrepare(exists, prepared) == exists \/ prepared

\* what one invocation did about prepare(): the flag it was given, whether
\* the cache file was there, whether it called prepare(), and whether the
\* file was there afterwards
PrepEntry(flag, exists) ==
    [flag |-> flag, existed |-> exists, prepared |-> NeedPrepare(flag, exists),
     after |-> AfterPrepare(exists, NeedPrepare(flag, exists))]

\* what is under the input path: the regular files 1 .. MaxCases and one
\* directory
File(k) == [kind |-> "file", id |-> k]

Dir == [kind |-> "dir", id |-> 0]

Paths == {File(k) : k \in 1 .. MaxCases} \cup {Dir}

\* the ways a finite set can be listed: each member once, in any order
Orders(S) ==
    {f \in [1 .. Cardinality(S) -> S] :
        \A a \in 1 .. Cardinality(S) : \A b \in 1 .. Cardinality(S) :
            a # b => f[a] # f[b]}

\* a file name of the command line: the name of one path, a pattern, or a
\* name that matches nothing
Plain(p) == [pat |-> "plain", p |-> p]

Star == [pat |-> "star", p |-> Dir]

Missing == [pat |-> "missing", p |-> Dir]

FileNames == {Plain(p) : p \in Paths} \cup {Star, Missing}

\* the paths a name matches; the pattern matches the directory and the
\* files 1 and 2
Matches(name) ==
    CASE name.pat = "plain" -> {name.p}
      [] name.pat = "star" -> {Dir, File(1), File(2)}
      [] OTHER -> {}

\* glob.glob(full_paths): the paths the name matches, in the order the
\* directory is listed in, which is any order
glob(name) == Orders(Matches(name))

\* for file in filename: found = glob.glob(full_paths); a name with nothing
\* found is logged, else cases += found. The lists cases can be
RECURSIVE Found(_)
Found(names) ==
    IF names = <<>> THEN {<<>>}
    ELSE {c \o g : c \in Found(SubSeq(names, 1, Len(names) - 1)),
                   g \in glob(names[Len(names)])}

\* a test that takes a directory for a case
isfile_Any(p) == TRUE

\* os.path.isfile(case)
isfile(p) == p.kind = "file"

\* a list of cases that keeps what was found twice
list_set_Keep(cases) == {cases}

\* cases = list(set(cases)): each path once, in the iteration order of a
\* set of str, which depends on the hash seed of the process: any order
list_set(cases) == Orders({cases[k] : k \in 1 .. Len(cases)})

\* for case in cases: if os.path.isfile(case): valid_cases.append(case).
\* The lists valid_cases can be
ValidCases(names) ==
    {SelectSeq(l, isfile) : l \in UNION {list_set(c) : c \in Found(names)}}

\* the non-computational requests, in the order main() tests them
Request_NoClean(opt) ==
    IF opt.noncomp \/ opt.clean \/ opt.save_config THEN "exit" ELSE "dispatch"

\* if edit_conf(...): return ; if args.get('license'): ... return ;
\* if args.get('clean'): remove_output(); return ;
\* if args.get('save_config') != '': ... return
Request(opt) ==
    CASE opt.noncomp -> "exit"
      [] opt.clean -> "clean"
      [] opt.save_config -> "exit"
      [] OTHER -> "dispatch"

\* main() up to the dispatch on len(valid_cases): the logger, prepare(), and
\* either a non-computational request, which is served and ends main()
\* before any case is looked at (for --clean: remove_output() is called),
\* or the resolution of the file names
MainConfig ==
    /\ mpc = "start"
    /\ streamLevel' = config_logger(streamLevel, verbose)
    /\ prepLog' = Append(prepLog, PrepEntry(options.prepare, pkl))
    /\ pkl' = AfterPrepare(pkl, NeedPrepare(options.prepare, pkl))
    /\ mpc' = Request(options)
    /\ rpc' = IF Request(options) = "clean" THEN "loop" ELSE rpc
    /\ IF Request(options) = "dispatch"
       THEN \E cases \in ValidCases(filename) :
                /\ valid_cases' = cases
                /\ ncases' = Len(cases)
       ELSE UNCHANGED <<valid_cases, ncases>>
    /\ UNCHANGED <<listing, rpos, found, rlog, rret>>
    /\ UNCHANGED <<verbose, ncpu, filename, options, ran, idx, jobs, jpos,
                   started, joined, batches, upc, calls>>

\* remove_output() has returned to main(), which returns; or it has raised
MainClean ==
    /\ mpc = "clean"
    /\ rpc \in {"returned", "raised"}
    /\ mpc' = IF rpc = "returned" THEN "exit" ELSE "crashed"
    /\ UNCHANGED cleanvars
    /\ UNCHANGED <<verbose, ncpu, filename, options, pkl, prepLog, valid_cases,
                   ncases, ran, streamLevel, idx, jobs, jpos, started, joined,
                   batches, upc, calls>>

\* a main() that gives every case it finds a process of its own
Dispatch_AlwaysBatch(k) == IF k <= 0 THEN "done" ELSE "launch"

\* if len(valid_cases) <= 0: pass ; elif len(valid_cases) == 1: run(...) ;
\* else: the launch loop
Dispatch(k) == IF k <= 0 THEN "done" ELSE IF k = 1 THEN "single" ELSE "launch"

\* the branch of main() on len(valid_cases)
MainDispatch ==
    /\ mpc = "dispatch"
    /\ IF Dispatch(ncases) = "done"
       THEN /\ mpc' = "done"
            /\ UNCHANGED <<streamLevel, upc, ran>>
       ELSE IF Dispatch(ncases) = "single"
       THEN /\ mpc' = "single"
            /\ upc' = [upc EXCEPT ![0] = "guess"]
            /\ ran' = Append(ran, valid_cases[1])
            /\ UNCHANGED streamLevel
       ELSE /\ mpc' = "launch"
            /\ streamLevel' = BatchLevel
            /\ UNCHANGED <<upc, ran>>
    /\ UNCHANGED cleanvars
    /\ UNCHANGED <<verbose, ncpu, filename, options, pkl, prepLog, valid_cases,
                   ncases, idx, jobs, jpos, started, joined, batches, calls>>

\* run(valid_cases[0], options=args) returns to main(), or raises through it
MainSingle ==
    /\ mpc = "single"
    /\ upc[0] \in Terminated
    /\ mpc' = IF upc[0] = "raised" THEN "crashed" ELSE "done"
    /\ UNCHANGED cleanvars
    /\ UNCHANGED <<verbose, ncpu, filename, options, pkl, prepLog, valid_cases,
                   ncases, ran, streamLevel, idx, jobs, jpos, started, joined,
                   batches, upc, calls>>

\* one pass of the launch loop: jobs.append(job); job.start(); the barrier test
MainLaunch ==
    /\ mpc = "launch"
    /\ idx < ncases
    /\ jobs' = Append(jobs, idx)
    /\ started' = started \cup {idx}
    /\ upc' = [upc EXCEPT ![idx] = "guess"]
    /\ ran' = Append(ran, valid_cases[idx + 1])
    /\ IF BarrierDue(idx, ncpu, ncases)
       THEN /\ mpc' = "join"
            /\ jpos' = 1
            /\ UNCHANGED <<idx, streamLevel>>
       ELSE IF idx + 1 < ncases
       THEN /\ idx' = idx + 1
            /\ UNCHANGED <<mpc, jpos, streamLevel>>
       ELSE /\ mpc' = "done"
            /\ streamLevel' = RestoredLevel
            /\ UNCHANGED <<idx, jpos>>
    /\ UNCHANGED cleanvars
    /\ UNCHANGED <<verbose, ncpu, filename, options, pkl, prepLog, valid_cases,
                   ncases, joined, batches, calls>>

\* for job in jobs: job.join() ; after the last one jobs = [] and the loop
\* goes on, or ends and the stream level is set back
MainJoin ==
    /\ mpc = "join"
    /\ jpos <= Len(jobs)
    /\ JoinReady(upc[jobs[jpos]])
    /\ joined' = joined \cup {jobs[jpos]}
    /\ IF JoinRaises(upc[jobs[jpos]])
       THEN /\ mpc' = "crashed"
            /\ UNCHANGED <<jpos, jobs, batches, idx, streamLevel>>
       ELSE IF jpos < Len(jobs)
       THEN /\ jpos' = jpos + 1
            /\ UNCHANGED <<mpc, jobs, batches, idx, streamLevel>>
       ELSE /\ jobs' = <<>>
            /\ batches' = Append(batches, Len(jobs))
            /\ jpos' = 1
            /\ IF idx + 1 < ncases
               THEN /\ idx' = idx + 1
                    /\ mpc' = "launch"
                    /\ UNCHANGED streamLevel
               ELSE /\ mpc' = "done"
                    /\ streamLevel' = RestoredLevel
                    /\ UNCHANGED idx
    /\ UNCHANGED cleanvars
    /\ UNCHANGED <<verbose, ncpu, filename, options, pkl, prepLog, valid_cases,
                   ncases, ran, started, upc, calls>>

\* the next invocation of main(): in a new process, where the logger has no
\* handler, or in the same one, where it keeps the handler it has; nothing
\* else is left of the invocation before but the cache file. The verbosity
\* and the requests may differ
MainAgain ==
    /\ mpc \in {"exit", "done", "crashed"}
    /\ Len(prepLog) < MaxRuns
    /\ verbose' \in Levels
    /\ \E flag \in BOOLEAN, noncomp \in BOOLEAN, clean \in BOOLEAN, save \in BOOLEAN :
           options' = [options EXCEPT !.prepare = flag, !.noncomp = noncomp,
                                      !.clean = clean, !.save_config = save]
    /\ \E fresh \in BOOLEAN :
           streamLevel' = IF fresh THEN NoHandler ELSE streamLevel
    /\ mpc' = "start"
    /\ valid_cases' = <<>>
    /\ ncases' = 0
    /\ ran' = <<>>
    /\ idx' = 0
    /\ jobs' = <<>>
    /\ jpos' = 1
    /\ started' = {}
    /\ joined' = {}
    /\ batches' = <<>>
    /\ upc' = [i \in Units |-> "idle"]
    /\ calls' = [i \in Units |-> <<>>]
    /\ rpc' = "idle"
    /\ rpos' = 1
    /\ found' = FALSE
    /\ rlog' = <<>>
    /\ rret' = "None"
    /\ UNCHANGED <<ncpu, filename, pkl, prepLog, listing>>

(* --------------------------- service variables ------------------------- *)

\* the largest count of a model; identifiers are 1 .. MaxRows and an index
\* selector names at most MaxRows of them
MaxRows == 2

VARIABLES
    svc,     \* the service object: its attributes, or NoObj before construction
    modelN,  \* the count n of the model that can own the service
    last     \* history: the last construction or link_external and its outcome

svcvars == <<svc, modelN, last>>

\* Python's None, for attributes that hold a name or a reference
None == "None"

\* the model a service can be bound to
Models == {"M1"}

Names == {None, "x"}

\* src: "p" is an attribute of every target, "q" of none
Sources == {"p", "q"}

Ids == 1 .. MaxRows

IdSeqs == UNION {[1 .. l -> Ids] : l \in 0 .. MaxRows}

\* the values of v: None, a scalar, or an array
NoneV == [tag |-> "None", x |-> <<>>]

Scalar(k) == [tag |-> "scalar", x |-> <<k>>]

Vec(x) == [tag |-> "array", x |-> x]

\* indexer=None, or an index parameter whose v lists identifiers
NoIndexer == [none |-> TRUE, v |-> <<>>]

Indexer(ids) == [none |-> FALSE, v |-> ids]

Indexers == {NoIndexer} \cup {Indexer(ids) : ids \in IdSeqs}

\* given: history, the name the constructor was called with
NoObj == [kind |-> "absent", name |-> None, owner |-> None, v |-> NoneV,
          v_str |-> None, src |-> None, indexer |-> NoIndexer, func |-> None,
          given |-> None]

\* ServiceBase.__init__: self.v = 0; self.name = name; self.owner = None
ServiceBase_init(kind, name) ==
    [kind |-> kind, name |-> name, owner |-> None, v |-> Scalar(0),
     v_str |-> None, src |-> None, indexer |-> NoIndexer, func |-> None,
     given |-> None]

\* Service.__init__(v_str, v_numeric, name): super().__init__(name); self.v = None
Service_init(v_str, name) ==
    [ServiceBase_init("Service", name) EXCEPT !.v_str = v_str, !.v = NoneV]

\* ExtService.__init__(src, name, ..., indexer): super().__init__() is called
\* without the name
ExtService_init(src, name, indexer) ==
    [ServiceBase_init("ExtService", None) EXCEPT !.src = src, !.indexer = indexer]

\* whether self.v = ... works on an instance of the class: ServiceRandom
\* declares v as a property without a setter
VSettable(kind) == kind # "ServiceRandom"

\* ServiceRandom.__init__(name, func): super().__init__(name) hands the name to
\* Service.__init__ as its first parameter, v_str, and ServiceBase.__init__
\* assigns self.v = 0; then self.func = func and delattr(self, 'v').
\* The object, or NoObj and the error raised
ServiceRandom_init(name, func) ==
    IF VSettable("ServiceRandom")
    THEN [obj |-> [Service_init(name, None) EXCEPT !.kind = "ServiceRandom",
                                                   !.func = func],
          err |-> "none"]
    ELSE [obj |-> NoObj, err |-> "AttributeError"]

\* ServiceBase.get_name: [self.name]
get_name(o) == <<o.name>>

\* a count kept with the value instead of read through the owner
n_Stored(o) == Len(o.v.x)

\* ServiceBase.n: self.owner.n if self.owner is not None else 0
n(o) == IF o.owner # None THEN modelN[o.owner] ELSE 0

\* np.zeros(k)
np_zeros(k) == [i \in 1 .. k |-> 0]

\* a default of ones
LinkDefault_Ones(k) == Vec([i \in 1 .. k |-> 1])

\* self.v = np.zeros(self.n)
LinkDefault(k) == Vec(np_zeros(k))

\* a link_external without the early return
EarlyReturn_Never(k) == FALSE

\* if self.n == 0: return
EarlyReturn(k) == (k = 0)

\* the targets of a link: a model or a group whose row r (from 1) holds the
\* device with identifier rows[r]
RowSeqs == {r \in IdSeqs : \A a, b \in 1 .. Len(r) : a # b => r[a] # r[b]}

Targets == [isGroup : BOOLEAN, rows : RowSeqs]

HasAttr(t, src) == (src = "p")

\* ext_model.__dict__[src].v: the attribute's value, one entry per row
AttrV(t, src) == [r \in 1 .. Len(t.rows) |-> 10 * r]

Known(t, id) == \E r \in 1 .. Len(t.rows) : t.rows[r] = id

AllKnown(t, ids) == \A i \in 1 .. Len(ids) : Known(t, ids[i])

\* idx2uid: identifiers to row positions, counted from 0
idx2uid(t, ids) ==
    [i \in 1 .. Len(ids) |->
        (CHOOSE r \in 1 .. Len(t.rows) : t.rows[r] = ids[i]) - 1]

\* an indexing that yields the rows in their own order
np_take_RowOrder(vec, uid) ==
    [i \in 1 .. Len(uid) |->
        vec[1 + CHOOSE u \in {uid[j] : j \in 1 .. Len(uid)} :
                Cardinality({j \in 1 .. Len(uid) : uid[j] < u}) <= i - 1
                /\ Cardinality({j \in 1 .. Len(uid) : uid[j] <= u}) >= i]]

\* v[uid] on an array, uid counted from 0
np_take(vec, uid) == [i \in 1 .. Len(uid) |-> vec[uid[i] + 1]]

\* the outcome of a link that went on past the count test, by the branch
\* it took
Linked(v, err, path) == [v |-> v, err |-> err, consulted |-> TRUE, path |-> path]

\* a dispatch that takes every target for a model
IsGroup_Never(t) == FALSE

\* isinstance(ext_model, GroupBase)
IsGroup(t) == t.isGroup

\* uid = ext_model.idx2uid(self.indexer.v); self.v = ext_model.__dict__[self.src].v[uid]
LinkModel(o, t, default) ==
    IF o.indexer.none THEN Linked(default, "indexer", "model")
    ELSE IF ~AllKnown(t, o.indexer.v) THEN Linked(default, "index", "model")
    ELSE IF ~HasAttr(t, o.src) THEN Linked(default, "attribute", "model")
    ELSE Linked(Vec(np_take(AttrV(t, o.src), idx2uid(t, o.indexer.v))), "none",
                "model")

\* GroupBase.get_by_idx(src, indexer, attr='v'): the values of the devices the
\* indexer names, in the indexer's order
get_by_idx(o, t, default) ==
    IF o.indexer.none THEN Linked(default, "indexer", "group")
    ELSE IF ~HasAttr(t, o.src) THEN Linked(default, "attribute", "group")
    ELSE IF ~AllKnown(t, o.indexer.v) THEN Linked(default, "index", "group")
    ELSE Linked(Vec([i \in 1 .. Len(o.indexer.v) |->
                        AttrV(t, o.src)[CHOOSE r \in 1 .. Len(t.rows) :
                                            t.rows[r] = o.indexer.v[i]]]),
                "none", "group")

\* ExtService.link_external(ext_model): the value of self.v afterwards, the
\* error it raised, and whether it went on past the count test
link_external(o, t) ==
    LET k == n(o)
        default == LinkDefault(k)
    IN  IF EarlyReturn(k)
        THEN [v |-> default, err |-> "none", consulted |-> FALSE,
              path |-> "none"]
        ELSE IF IsGroup(t)
        THEN get_by_idx(o, t, default)
        ELSE LinkModel(o, t, default)

NoTarget == [isGroup |-> FALSE, rows |-> <<>>]

NoLast == [op |-> "none", kind |-> "none", err |-> "none", n |-> 0,
           consulted |-> FALSE, path |-> "none", t |-> NoTarget]

\* Service(name=...)
NewService ==
    /\ svc = NoObj
    /\ \E name \in Names :
           svc' = [Service_init(None, name) EXCEPT !.given = name]
    /\ last' = [NoLast EXCEPT !.op = "new", !.kind = "Service"]
    /\ UNCHANGED modelN

\* ExtService(src, name=..., indexer=...)
NewExtService ==
    /\ svc = NoObj
    /\ \E src \in Sources, name \in Names, indexer \in Indexers :
           svc' = [ExtService_init(src, name, indexer) EXCEPT !.given = name]
    /\ last' = [NoLast EXCEPT !.op = "new", !.kind = "ExtService"]
    /\ UNCHANGED modelN

\* ServiceRandom(name=...), with the default func
NewServiceRandom ==
    /\ svc = NoObj
    /\ \E name \in Names :
           LET r == ServiceRandom_init(name, "np.random.rand")
           IN  /\ svc' = IF r.err = "none" THEN [r.obj EXCEPT !.given = name]
                         ELSE NoObj
               /\ last' = [NoLast EXCEPT !.op = "new", !.kind = "ServiceRandom",
                                         !.err = r.err]
    /\ UNCHANGED modelN

\* the owning model binds the service: service.owner = model, or unbinds it
SetOwner ==
    /\ svc # NoObj
    /\ \E m \in Models \cup {None} :
           /\ m # svc.owner
           /\ svc' = [svc EXCEPT !.owner = m]
    /\ UNCHANGED <<modelN, last>>

\* devices are added to or removed from a model
SetN ==
    /\ \E m \in Models, k \in 0 .. MaxRows :
           /\ k # modelN[m]
           /\ modelN' = [modelN EXCEPT ![m] = k]
    /\ UNCHANGED <<svc, last>>

Link ==
    /\ svc.kind = "ExtService"
    /\ \E t \in Targets :
           LET r == link_external(svc, t)
           IN  /\ svc' = [svc EXCEPT !.v = r.v]
               /\ last' = [op |-> "link", kind |-> svc.kind, err |-> r.err,
                           n |-> n(svc), consulted |-> r.consulted,
                           path |-> r.path, t |-> t]
    /\ UNCHANGED modelN

\* the main variables while the service layer is looked at on its own
NoOptions ==
    [routine |-> "none", exit |-> FALSE, dump |-> FALSE, noncomp |-> FALSE,
     clean |-> FALSE, save_config |-> FALSE,
     prepare |-> FALSE, profile |-> FALSE, no_output |-> FALSE]

\* main() has not begun
MainStart ==
    /\ prepLog = <<>>
    /\ valid_cases = <<>>
    /\ ncases = 0
    /\ ran = <<>>
    /\ mpc = "start"
    /\ streamLevel = NoHandler
    /\ idx = 0
    /\ jobs = <<>>
    /\ jpos = 1
    /\ started = {}
    /\ joined = {}
    /\ batches = <<>>
    /\ upc = [i \in Units |-> "idle"]
    /\ calls = [i \in Units |-> <<>>]

MainIdle ==
    /\ verbose = INFO
    /\ ncpu = 1
    /\ filename = <<>>
    /\ options = NoOptions
    /\ pkl = TRUE
    /\ MainStart

\* the service variables while main() is looked at on its own
ServiceIdle ==
    /\ svc = NoObj
    /\ modelN = [m \in Models |-> 0]
    /\ last = NoLast

\* the file names of k cases that exist, each named once
FirstFiles(k) == [j \in 1 .. k |-> Plain(File(j))]

\* the options of a run that solves the power flow and nothing else
PlainRun(o) == o.routine = "none" /\ ~o.exit /\ ~o.dump

\* a batch: any worker count, number of cases, in any order, and options of
\* run(), a dump followed by a routine left out; any verbosity, one other than
\* the default with a plain run; the cache file is there, no profile is
\* asked for, and of the non-computational requests only --edit-config and
\* --license
Init ==
    /\ ServiceIdle
    /\ CleanIdle
    /\ verbose \in Levels
    /\ ncpu \in 1 .. MaxNcpu
    /\ filename \in {FirstFiles(k) : k \in 0 .. MaxCases}
    /\ options \in {o \in Options : /\ ~o.prepare /\ ~o.profile /\ ~o.no_output
                                     /\ ~o.clean /\ ~o.save_config
                                     /\ (o.dump => (o.routine = "none" \/ o.exit))
                                     /\ (verbose = INFO \/ PlainRun(o))}
    /\ pkl = TRUE
    /\ MainStart

\* main() and the run() of every unit, interleaved
Next ==
    \/ MainConfig /\ UNCHANGED svcvars
    \/ MainDispatch /\ UNCHANGED svcvars
    \/ MainSingle /\ UNCHANGED svcvars
    \/ MainLaunch /\ UNCHANGED svcvars
    \/ MainJoin /\ UNCHANGED svcvars
    \/ \E i \in Units : RunGuess(i) /\ UNCHANGED svcvars
    \/ \E i \in Units : RunParse(i) /\ UNCHANGED svcvars
    \/ \E i \in Units : RunSetup(i) /\ UNCHANGED svcvars
    \/ \E i \in Units : RunDump(i) /\ UNCHANGED svcvars
    \/ \E i \in Units : RunPFlow(i) /\ UNCHANGED svcvars
    \/ \E i \in Units : RunTDS(i) /\ UNCHANGED svcvars
    \/ \E i \in Units : RunEIG(i) /\ UNCHANGED svcvars
    \/ \E i \in Units : RunHang(i) /\ UNCHANGED svcvars

vars == <<mainvars, svcvars, cleanvars>>

Spec == Init /\ [][Next]_vars

\* one case at most, run in-process, with every option run() branches on
InitRun ==
    /\ ServiceIdle
    /\ CleanIdle
    /\ verbose \in Levels
    /\ ncpu = 1
    /\ filename \in {FirstFiles(k) : k \in 0 .. 1}
    /\ options \in {o \in Options : /\ ~o.prepare /\ ~o.noncomp
                                     /\ ~o.clean /\ ~o.save_config}
    /\ pkl = TRUE
    /\ MainStart

NextRun ==
    \/ MainConfig /\ UNCHANGED svcvars
    \/ MainDispatch /\ UNCHANGED svcvars
    \/ MainSingle /\ UNCHANGED svcvars
    \/ RunGuess(0) /\ UNCHANGED svcvars
    \/ RunParse(0) /\ UNCHANGED svcvars
    \/ RunSetup(0) /\ UNCHANGED svcvars
    \/ RunDump(0) /\ UNCHANGED svcvars
    \/ RunPFlow(0) /\ UNCHANGED svcvars
    \/ RunTDS(0) /\ UNCHANGED svcvars
    \/ RunEIG(0) /\ UNCHANGED svcvars
    \/ RunProfile(0) /\ UNCHANGED svcvars
    \/ RunHang(0) /\ UNCHANGED svcvars

SpecRun == InitRun /\ [][NextRun]_vars

\* the lists of at most MaxNames file names
NameLists == UNION {[1 .. k -> FileNames] : k \in 0 .. MaxNames}

\* any list of file names, one or two workers; every case is converted
\* only (--exit)
InitFiles ==
    /\ ServiceIdle
    /\ CleanIdle
    /\ verbose = INFO
    /\ ncpu \in 1 .. 2
    /\ filename \in NameLists
    /\ options = [NoOptions EXCEPT !.exit = TRUE]
    /\ pkl = TRUE
    /\ MainStart

NextFiles ==
    \/ MainConfig /\ UNCHANGED svcvars
    \/ MainDispatch /\ UNCHANGED svcvars
    \/ MainSingle /\ UNCHANGED svcvars
    \/ MainLaunch /\ UNCHANGED svcvars
    \/ MainJoin /\ UNCHANGED svcvars
    \/ \E i \in Units : RunGuess(i) /\ UNCHANGED svcvars
    \/ \E i \in Units : RunParse(i) /\ UNCHANGED svcvars
    \/ \E i \in Units : RunSetup(i) /\ UNCHANGED svcvars

SpecFiles == InitFiles /\ [][NextFiles]_vars

\* invocations of main() without an input file, in an empty working
\* directory: any verbosity, with or without --prepare and each of the
\* non-computational requests, the cache file there or not at first
InitCache ==
    /\ ServiceIdle
    /\ CleanIdle
    /\ verbose \in Levels
    /\ ncpu = 1
    /\ filename = <<>>
    /\ options \in {o \in Options : /\ o.routine = "none" /\ ~o.exit /\ ~o.dump
                                     /\ ~o.profile /\ ~o.no_output}
    /\ pkl \in BOOLEAN
    /\ MainStart

NextCache ==
    \/ MainConfig /\ UNCHANGED svcvars
    \/ MainDispatch /\ UNCHANGED svcvars
    \/ MainClean /\ UNCHANGED svcvars
    \/ MainAgain /\ UNCHANGED svcvars
    \/ CleanReturn /\ UNCHANGED <<mainvars, svcvars>>

SpecCache == InitCache /\ [][NextCache]_vars

\* the working directories of at most MaxFiles names
Listings == UNION {[1 .. k -> DirNames] : k \in 0 .. MaxFiles}

\* remove_output() on any working directory: called by main() for --clean,
\* or called on its own, main() not running
InitClean ==
    /\ ServiceIdle
    /\ verbose = INFO
    /\ ncpu = 1
    /\ filename = <<>>
    /\ options = [NoOptions EXCEPT !.clean = TRUE]
    /\ pkl = TRUE
    /\ prepLog = <<>>
    /\ valid_cases = <<>>
    /\ ncases = 0
    /\ ran = <<>>
    /\ streamLevel = NoHandler
    /\ idx = 0
    /\ jobs = <<>>
    /\ jpos = 1
    /\ started = {}
    /\ joined = {}
    /\ batches = <<>>
    /\ upc = [i \in Units |-> "idle"]
    /\ calls = [i \in Units |-> <<>>]
    /\ listing \in Listings
    /\ \/ mpc = "start" /\ rpc = "idle"
       \/ mpc = "exit" /\ rpc = "loop"
    /\ rpos = 1
    /\ found = FALSE
    /\ rlog = <<>>
    /\ rret = "None"

NextClean ==
    \/ MainConfig /\ UNCHANGED svcvars
    \/ MainClean /\ UNCHANGED svcvars
    \/ CleanStep /\ UNCHANGED <<mainvars, svcvars>>
    \/ CleanReturn /\ UNCHANGED <<mainvars, svcvars>>

SpecClean == InitClean /\ [][NextClean]_vars

\* a batch of two cases or more, any worker count and routine
InitLive ==
    /\ ServiceIdle
    /\ CleanIdle
    /\ verbose = INFO
    /\ ncpu \in 1 .. MaxNcpu
    /\ filename \in {FirstFiles(k) : k \in 2 .. MaxCases}
    /\ options \in {[NoOptions EXCEPT !.routine = r] : r \in Routines}
    /\ pkl = TRUE
    /\ MainStart

\* main() and its units, every solver routine returning
NextLive ==
    \/ MainConfig /\ UNCHANGED svcvars
    \/ MainDispatch /\ UNCHANGED svcvars
    \/ MainLaunch /\ UNCHANGED svcvars
    \/ MainJoin /\ UNCHANGED svcvars
    \/ \E i \in Units : RunGuess(i) /\ UNCHANGED svcvars
    \/ \E i \in Units : RunParse(i) /\ UNCHANGED svcvars
    \/ \E i \in Units : RunSetup(i) /\ UNCHANGED svcvars
    \/ \E i \in Units : RunPFlow(i) /\ UNCHANGED svcvars
    \/ \E i \in Units : RunTDS(i) /\ UNCHANGED svcvars
    \/ \E i \in Units : RunEIG(i) /\ UNCHANGED svcvars

\* the steps of main() itself
MainLive ==
    (MainConfig \/ MainDispatch \/ MainLaunch \/ MainJoin)
        /\ UNCHANGED svcvars

\* the steps of the process of unit i
UnitLive(i) ==
    (RunGuess(i) \/ RunParse(i) \/ RunSetup(i) \/ RunPFlow(i) \/ RunTDS(i)
        \/ RunEIG(i)) /\ UNCHANGED svcvars

\* main() is a sequential program that goes on while it can, and every
\* process that was started is scheduled and its calls return
SpecLive ==
    /\ InitLive
    /\ [][NextLive]_vars
    /\ WF_vars(MainLive)
    /\ \A i \in Units : WF_vars(UnitLive(i))

InitService ==
    /\ MainIdle
    /\ ServiceIdle
    /\ CleanIdle

NextService ==
    \/ NewService /\ UNCHANGED <<mainvars, cleanvars>>
    \/ NewExtService /\ UNCHANGED <<mainvars, cleanvars>>
    \/ NewServiceRandom /\ UNCHANGED <<mainvars, cleanvars>>
    \/ SetOwner /\ UNCHANGED <<mainvars, cleanvars>>
    \/ SetN /\ UNCHANGED <<mainvars, cleanvars>>
    \/ Link /\ UNCHANGED <<mainvars, cleanvars>>

SpecService == InitService /\ [][NextService]_vars

(* ------------------------- the batch scheduler ------------------------- *)

\* a batch run: main() took the multi-processing branch
IsBatch == ncases >= 2 /\ mpc \in {"launch", "join", "done", "crashed"}

\* units launched (started) and not yet joined
Pending == started \ joined

\* the batch a unit is launched in
Batch(i) == i \div ncpu

CeilDiv(a, b) == (a + b - 1) \div b

\* C1: in a batch run over k >= 2 cases with ncpu >= 1 workers, at every
\* instant the number of units launched but not yet joined is at most ncpu
\* (and so is the length of the list jobs).
C1_PendingAtMostNcpu ==
    IsBatch => /\ Cardinality(Pending) <= ncpu
               /\ Len(jobs) <= ncpu

\* a full batch of ncpu >= 2 units is pending, and more cases are to come
C1_Witness ==
    /\ IsBatch
    /\ ncpu >= 2
    /\ ncases > ncpu
    /\ Cardinality(Pending) = ncpu
    /\ \E i \in Pending : upc[i] \notin Terminated

\* C2: a batch run over k >= 2 cases performs exactly ceil(k / ncpu) join
\* barriers: one after every ncpu-th launch, each joining ncpu units, and one
\* after the final launch, joining the remaining units, when k is not a
\* multiple of ncpu.
C2_BarrierCount ==
    IsBatch =>
        /\ mpc = "done" => Len(batches) = CeilDiv(ncases, ncpu)
        /\ \A b \in 1 .. Len(batches) :
               batches[b] = IF b * ncpu <= ncases THEN ncpu
                            ELSE ncases - (b - 1) * ncpu
        /\ mpc = "launch" => /\ Len(batches) * ncpu + Len(jobs) = idx
                             /\ Len(jobs) < ncpu
        /\ mpc = "join" => Len(batches) * ncpu + Len(jobs) = idx + 1

\* main() has returned from a batch whose last barrier joined a partial batch
C2_Witness ==
    /\ IsBatch
    /\ mpc = "done"
    /\ ncases % ncpu # 0
    /\ Len(batches) >= 2
    /\ batches[Len(batches)] < ncpu

\* C3: no unit of a later batch is launched until every unit of the earlier
\* batches has ended and been joined; so a unit that never ends keeps every
\* later batch from launching and main() from returning. Units of one batch
\* end in any order (the witness).
C3_BatchBarrier ==
    IsBatch =>
        /\ \A i \in started : \A j \in 0 .. (ncases - 1) :
               Batch(j) < Batch(i) => j \in joined
        /\ \A j \in joined : j \in started /\ upc[j] \in Terminated
        /\ \A j \in started :
               upc[j] = "hung" =>
                   /\ mpc # "done"
                   /\ \A i \in 0 .. (ncases - 1) :
                          Batch(i) > Batch(j) => i \notin started

\* the barrier holds a later batch back: a unit hangs, a unit launched after
\* it in the same batch has already ended, and a case is still to be launched
C3_Witness ==
    /\ IsBatch
    /\ mpc = "join"
    /\ \E i, j \in started :
           /\ Batch(i) = Batch(j)
           /\ i < j
           /\ upc[j] \in Terminated
           /\ upc[i] = "hung"
           /\ \E l \in 0 .. (ncases - 1) : Batch(l) > Batch(i) /\ l \notin started

\* the calls after which a unit counts as failed
Failed(i) ==
    \/ upc[i] = "raised"
    \/ \E p \in 1 .. Len(calls[i]) : calls[i][p].res \in {"fail", "raise", "nonconv"}

\* C4: in a batch run a unit that fails (guess or parse fails, setup raises,
\* the power flow does not converge) aborts neither the scheduler nor a
\* sibling: the scheduler never crashes, is never kept from launching or from
\* joining units that have ended, and when it is done every valid case has
\* been launched, has ended with its own outcome and has been joined.
C4_FailureConfined ==
    IsBatch =>
        /\ mpc # "crashed"
        /\ mpc = "launch" => ENABLED MainLaunch
        /\ (mpc = "join" /\ upc[jobs[jpos]] \in Terminated) => ENABLED MainJoin
        /\ mpc = "done" =>
               \A i \in 0 .. (ncases - 1) :
                   i \in started /\ i \in joined /\ upc[i] \in Terminated

\* a unit's setup raised; a sibling of its batch solved its power flow and a
\* unit of a later batch was launched and joined
C4_Witness ==
    /\ IsBatch
    /\ mpc = "done"
    /\ \E i, j, l \in joined :
           /\ upc[i] = "raised"
           /\ i < j
           /\ Batch(j) = Batch(i)
           /\ upc[j] = "ret_system"
           /\ ~Failed(j)
           /\ Called(j, "pflow")
           /\ Batch(l) > Batch(i)

\* C5: during a batch run the stream handler's level is WARNING from before
\* the first launch until after the last join, and once the batch has ended
\* it is the level it had before the batch (the one of the verbose option).
C5_LevelRestored ==
    IsBatch =>
        /\ mpc \in {"launch", "join"} => streamLevel = WARNING
        /\ mpc = "done" => streamLevel = verbose

(* ----------------------------- one run() ------------------------------- *)

Solvers == {"pflow", "tds", "eig"}

\* C6: in one run() setup() has completed before a solver routine starts,
\* the power flow has completed (converged or not) before the time-domain or
\* the eigenvalue routine starts, and setup() is invoked at most once.
C6_LifecycleOrder ==
    \A i \in Units :
        /\ NCalls(i, "setup") <= 1
        /\ upc[i] \in Solvers \cup {"hung"} => Called(i, "setup")
        /\ upc[i] \in {"tds", "eig"} => Called(i, "pflow")
        /\ \A p \in 1 .. Len(calls[i]) :
               /\ calls[i][p].op \in Solvers =>
                      \E q \in 1 .. (p - 1) : calls[i][q] = Call("setup", "ok")
               /\ calls[i][p].op \in {"tds", "eig"} =>
                      \E q \in 1 .. (p - 1) : calls[i][q].op = "pflow"

\* a run() went through setup, a power flow that did not converge and the
\* eigenvalue routine
C6_Witness ==
    \E i \in Units :
        /\ upc[i] = "ret_system"
        /\ Called(i, "eig")
        /\ \E p \in 1 .. Len(calls[i]) : calls[i][p] = Call("pflow", "nonconv")

\* guess() or parse() reported failure in this run()
InputFailed(i) ==
    \E p \in 1 .. Len(calls[i]) :
        calls[i][p].op \in {"guess", "parse"} /\ calls[i][p].res = "fail"

\* C7: if guess() or parse() reports failure, run() returns None without
\* raising, and setup(), the dump writer and the solver routines are never
\* invoked for that case: the failed call is the last call of the run.
C7_InputFailureAborts ==
    \A i \in Units :
        InputFailed(i) =>
            /\ upc[i] = "ret_none"
            /\ calls[i][Len(calls[i])].res = "fail"
            /\ \A op \in {"setup", "dump"} \cup Solvers : ~Called(i, op)

\* one run() ended on a failed guess(), another on a failed parse()
C7_Witness ==
    \E i, j \in Units :
        /\ upc[i] = "ret_none"
        /\ calls[i] = <<Call("guess", "fail")>>
        /\ upc[j] = "ret_none"
        /\ calls[j] = <<Call("guess", "ok"), Call("parse", "fail")>>

(* ------------------------- the service variables ----------------------- *)

\* the last operation was a link_external of a service whose count was k > 0
\* and whose index selector names an identifier the target has no row for
LinkedUnknownIndex ==
    /\ last.op = "link"
    /\ last.n > 0
    /\ ~svc.indexer.none
    /\ ~AllKnown(last.t, svc.indexer.v)

\* C8 as stated: for an ExtService with count > 0 whose index selector holds
\* an identifier without a row in the target, link_external fails and the
\* value is afterwards unset, not a zero vector.
C8_UnsetAfterFailedLink ==
    LinkedUnknownIndex =>
        /\ last.err # "none"
        /\ svc.v # Vec(np_zeros(last.n))

\* C8 amended: for an ExtService with count > 0 whose index selector holds an
\* identifier without a row in the target, link_external fails and the value
\* is afterwards the zero vector of length count that link_external assigned
\* before it looked at the target.
C8_ZeroAfterFailedLink ==
    LinkedUnknownIndex =>
        /\ last.err # "none"
        /\ svc.v = Vec(np_zeros(last.n))

\* a link against a model that has the attribute and rows, but not the row
\* of one of the identifiers, has failed
C8_Witness ==
    /\ LinkedUnknownIndex
    /\ last.err = "index"
    /\ ~last.t.isGroup
    /\ Len(last.t.rows) > 0
    /\ svc.src = "p"
    /\ last.n = MaxRows

\* C9: for an ExtService whose count is 0 (every unowned one included),
\* link_external against any target sets the value to the empty vector and
\* returns without error and without going on to the target, the source
\* attribute or the index selector, whatever they are.
C9_EmptyLinkIsNoOp ==
    (last.op = "link" /\ last.n = 0) =>
        /\ last.err = "none"
        /\ ~last.consulted
        /\ svc.v = Vec(<<>>)

\* an unowned service was linked though its target lacks the attribute and
\* its index selector names an identifier the target does not know
C9_Witness ==
    /\ last.op = "link"
    /\ last.n = 0
    /\ svc.owner = None
    /\ svc.src = "q"
    /\ ~svc.indexer.none
    /\ Len(svc.indexer.v) > 0
    /\ ~AllKnown(last.t, svc.indexer.v)

\* C10: the count of a service of any class is, in every state, the count of
\* its owner when an owner is bound and 0 when none is; it follows every
\* change of the owner's count and of the binding, and is defined in every
\* state (reading it does not raise).
C10_CountThroughOwner ==
    svc # NoObj =>
        /\ n(svc) \in 0 .. MaxRows
        /\ svc.owner = None => n(svc) = 0
        /\ svc.owner # None => n(svc) = modelN[svc.owner]

\* the owner's count has changed since the service was linked, and the value
\* still has the length of the count at link time
C10_Witness ==
    /\ svc.kind = "ExtService"
    /\ svc.owner # None
    /\ last.op = "link"
    /\ last.err = "none"
    /\ last.n > 0
    /\ modelN[svc.owner] > last.n
    /\ Len(svc.v.x) = last.n

\* C14 as stated: a ServiceRandom can be created, with or without an owner;
\* the construction does not raise and leaves a ServiceRandom object whose
\* value is read through its func.
C14_StochasticCreated ==
    (last.op = "new" /\ last.kind = "ServiceRandom") =>
        /\ last.err = "none"
        /\ svc.kind = "ServiceRandom"
        /\ svc.func = "np.random.rand"

\* C15 as stated: a service of any class constructed with name x answers
\* get_name() with the one-element sequence <<x>>.
C15_NameWrapped ==
    svc # NoObj => get_name(svc) = <<svc.given>>

\* the last operation was a link_external of a service with count > 0 that
\* raised nothing
LinkedOk ==
    /\ last.op = "link"
    /\ last.n > 0
    /\ last.err = "none"

\* C20: after a successful link_external of an ExtService with count > 0 the
\* value has one entry per entry of the index selector, in the selector's
\* order: entry i is the target's source attribute at the row of identifier
\* indexer.v[i] (for a model the row idx2uid gives, for a group what
\* get_by_idx gathers); and the branch taken is the group one exactly when
\* the target is a group.
C20_LinkedValue ==
    LinkedOk =>
        /\ last.path = IF last.t.isGroup THEN "group" ELSE "model"
        /\ svc.v.tag = "array"
        /\ Len(svc.v.x) = Len(svc.indexer.v)
        /\ \A i \in 1 .. Len(svc.indexer.v) :
               \E r \in 1 .. Len(last.t.rows) :
                   /\ last.t.rows[r] = svc.indexer.v[i]
                   /\ svc.v.x[i] = AttrV(last.t, svc.src)[r]
        /\ ~last.t.isGroup =>
               svc.v.x = [i \in 1 .. Len(svc.indexer.v) |->
                             AttrV(last.t, svc.src)[idx2uid(last.t, svc.indexer.v)[i] + 1]]

\* a model was linked through a selector that names its rows in another
\* order than the rows have
C20_Witness ==
    /\ LinkedOk
    /\ ~last.t.isGroup
    /\ Len(svc.indexer.v) >= 2
    /\ idx2uid(last.t, svc.indexer.v)[1] > idx2uid(last.t, svc.indexer.v)[2]

(* ------------------------ one run(), continued ------------------------- *)

\* C11 as stated: the time-domain or the eigenvalue routine is started only
\* after the power flow has converged (run() has no option that forces a
\* result); after a power flow that did not converge neither is started.
C11_RoutineOnlyAfterConverged ==
    \A i \in Units :
        (upc[i] \in {"tds", "eig"} \/ Called(i, "tds") \/ Called(i, "eig")) =>
            \E p \in 1 .. Len(calls[i]) : calls[i][p] = Call("pflow", "ok")

\* C12: in one run() at most one of the time-domain and the eigenvalue
\* routine runs, the time-domain one only for routine 'tds' and the
\* eigenvalue one only for 'eig'; a run() that returns the system without the
\* exit option has run the power flow exactly once, the time-domain routine
\* exactly when the routine is 'tds', the eigenvalue routine exactly when it
\* is 'eig', and neither when no routine was asked for.
C12_OneRoutine ==
    \A i \in Units :
        /\ NCalls(i, "pflow") <= 1
        /\ NCalls(i, "tds") + NCalls(i, "eig") <= 1
        /\ (upc[i] = "tds" \/ Called(i, "tds")) => options.routine = "tds"
        /\ (upc[i] = "eig" \/ Called(i, "eig")) => options.routine = "eig"
        /\ (upc[i] = "ret_system" /\ ~options.exit) =>
               /\ NCalls(i, "pflow") = 1
               /\ Called(i, "tds") <=> options.routine = "tds"
               /\ Called(i, "eig") <=> options.routine = "eig"

\* a run() with routine 'tds' has solved the power flow, run the time-domain
\* routine and returned
C12_Witness ==
    \E i \in Units :
        /\ upc[i] = "ret_system"
        /\ ~options.exit
        /\ options.routine = "tds"
        /\ Called(i, "pflow")
        /\ Called(i, "tds")

\* C13: with the exit option run() never invokes the power flow, the
\* time-domain or the eigenvalue routine, whatever routine was asked for, and
\* it returns the system only after setup() has completed and, if a dump was
\* asked for, after the dump was written.
C13_ExitBeforeSolve ==
    options.exit =>
        \A i \in Units :
            /\ upc[i] \notin Solvers \cup {"hung"}
            /\ \A op \in Solvers : ~Called(i, op)
            /\ upc[i] = "ret_system" =>
                   calls[i] = IF options.dump
                              THEN <<Call("guess", "ok"), Call("parse", "ok"),
                                     Call("setup", "ok"), Call("dump", "ok")>>
                              ELSE <<Call("guess", "ok"), Call("parse", "ok"),
                                     Call("setup", "ok")>>

\* a run() with the exit option, a dump and routine 'tds' has returned
C13_Witness ==
    /\ options.exit
    /\ options.dump
    /\ options.routine = "tds"
    /\ \E i \in Units : upc[i] = "ret_system"

\* C19: in run() the dump writer is invoked only when a dump was asked for,
\* at most once, right after setup() has completed; a run() that has gone
\* on to a solver routine or has returned the system has written the dump
\* exactly when one was asked for.
C19_DumpIfRequested ==
    \A i \in Units :
        /\ NCalls(i, "dump") <= 1
        /\ Called(i, "dump") => options.dump
        /\ \A p \in 1 .. Len(calls[i]) :
               calls[i][p].op = "dump" =>
                   /\ p > 1
                   /\ calls[i][p - 1] = Call("setup", "ok")
        /\ upc[i] \in Solvers \cup {"hung", "ret_system"} =>
               (Called(i, "dump") <=> options.dump)

\* a run() has written the dump and gone on to solve the power flow
C19_Witness ==
    \E i \in Units :
        /\ options.dump
        /\ Called(i, "dump")
        /\ Called(i, "pflow")

(* ------------------------------ C16 (SpecCache) ------------------------ *)

\* C16: an invocation of main() calls prepare() if and only if --prepare was
\* given or the cache file was absent; and once an invocation has left the
\* cache file in place, no later invocation without --prepare calls prepare()
C16_PrepareIffForcedOrAbsent ==
    /\ \A j \in 1 .. Len(prepLog) :
           prepLog[j].prepared <=> (prepLog[j].flag \/ ~prepLog[j].existed)
    /\ \A j \in 1 .. Len(prepLog) : \A l \in 1 .. Len(prepLog) :
           (j < l /\ prepLog[j].after /\ ~prepLog[l].flag) => ~prepLog[l].prepared

\* C16 witness: three invocations: one without --prepare that finds no cache
\* file and prepares, a later one without --prepare that skips, and one with
\* --prepare that regenerates although the file is there
C16_Witness ==
    /\ Len(prepLog) = MaxRuns
    /\ ~prepLog[1].flag /\ ~prepLog[1].existed /\ prepLog[1].prepared
    /\ \E l \in 2 .. Len(prepLog) : ~prepLog[l].flag /\ ~prepLog[l].prepared
    /\ \E l \in 2 .. Len(prepLog) :
           prepLog[l].flag /\ prepLog[l].existed /\ prepLog[l].prepared

(* ------------------------------ C17 (SpecRun) -------------------------- *)

\* the report of the profiler was emitted by unit i
Reported(i) == Called(i, "prof_stdout") \/ Called(i, "prof_file")

\* C17: a run() with profiling enabled that has returned (after the full
\* solve, after --exit, or after a failed guess or parse) has emitted the
\* report, to the profile file when output is not suppressed and to the
\* console otherwise; a run() with profiling disabled emits none
C17_ProfileAlwaysReported ==
    \A i \in Units :
        /\ (options.profile /\ upc[i] \in Returned) =>
               NCalls(i, ProfileSink(options)) = 1
        /\ ~options.profile => ~Reported(i)

(* ------------------------------ C18 (SpecFiles) ------------------------ *)

\* the path is found by one of the file names given
Matched(p) == \E j \in 1 .. Len(filename) : p \in Matches(filename[j])

\* how many times the path was handed to run()
NRan(p) == Cardinality({k \in 1 .. Len(ran) : ran[k] = p})

\* C18: when main() has gone through its cases, every regular file that one
\* of the file names matches was handed to run() exactly once, and nothing
\* else was: no directory, and no file twice
C18_EachCaseOnce ==
    mpc = "done" =>
        \A p \in Paths :
            NRan(p) = IF isfile(p) /\ Matched(p) THEN 1 ELSE 0

\* C18 witness: a file named twice, or matched by two of the names, next to
\* a directory or a name that matches nothing, and main() has gone through
\* a batch of the files found
C18_Witness ==
    /\ mpc = "done"
    /\ Len(ran) >= 2
    /\ \E j \in 1 .. Len(filename) : \E l \in 1 .. Len(filename) :
           /\ j # l
           /\ \E p \in Matches(filename[j]) \cap Matches(filename[l]) : isfile(p)
    /\ \E j \in 1 .. Len(filename) :
           \/ Matches(filename[j]) = {}
           \/ \E p \in Matches(filename[j]) : ~isfile(p)

(* ------------------------------ C21 (SpecClean) ------------------------ *)

\* the endings of the output files
OutputSuffixes == {"_eig.txt", "_out.txt", "_out.lst", "_out.dat", "_prof.txt"}

\* the attempts remove_output() made on the name at position k
Attempts(k) == {a \in 1 .. Len(rlog) : rlog[a].pos = k}

\* C21: remove_output() never ends by an exception; once it has returned it
\* has returned True, it has tried to remove every name of the working
\* directory that ends with an output suffix, once, and no other name; and
\* each try that failed logged an error for that file, each that succeeded
\* logged the removal
C21_RemoveAllAndReturnTrue ==
    /\ rpc # "raised"
    /\ rpc = "returned" =>
           /\ rret = "True"
           /\ \A k \in 1 .. Len(listing) :
                  Cardinality(Attempts(k)) =
                      IF listing[k].ending \in OutputSuffixes THEN 1 ELSE 0
           /\ \A a \in 1 .. Len(rlog) :
                  rlog[a].line = IF rlog[a].outcome = "ok" THEN "removed" ELSE "error"

\* C21 witness: remove_output() has returned after a removal that failed and
\* a later one that succeeded
C21_Witness ==
    /\ rpc = "returned"
    /\ \E a \in 1 .. Len(rlog) : \E b \in 1 .. Len(rlog) :
           /\ rlog[a].pos < rlog[b].pos
           /\ rlog[a].outcome # "ok"
           /\ rlog[b].outcome = "ok"

(* ------------------------------ C22 (SpecLive) ------------------------- *)

\* main() has gone through the launch loop with no unit left that was
\* started and not joined
ReturnedAllJoined == mpc = "done" /\ started = joined /\ jobs = <<>>

\* C22: in a batch whose units all end, main() eventually returns, and
\* then every unit that was started has been joined and the list of pending
\* jobs is empty
C22_BatchReturnsAllJoined == (mpc = "launch") ~> ReturnedAllJoined

\* C22 witness: main() has returned from a batch of more than one barrier
\* in which a unit ended by an exception, every unit started and joined
C22_Witness ==
    /\ ReturnedAllJoined
    /\ IsBatch
    /\ Cardinality(started) = ncases
    /\ Len(batches) >= 2
    /\ \E i \in started : upc[i] = "raised"

(* ------------------------------ C23 (Spec) ----------------------------- *)

\* main() is past the branch on the number of valid cases
Dispatched == mpc \in {"single", "launch", "join", "done", "crashed"}

\* no process was started: no unit in a process, no job pending or joined
NoUnitLaunched ==
    started = {} /\ joined = {} /\ jobs = <<>> /\ batches = <<>>

\* C23: with one valid case, main() runs it by a call of run() in its own
\* process, starts no process, and the level of the console handler stays
\* the one --verbose asked for; with no valid case, run() is not called, no
\* process is started and the level stays as well
C23_SingleInProcess ==
    /\ (Dispatched /\ ncases = 1) =>
           /\ NoUnitLaunched
           /\ ran = <<valid_cases[1]>>
           /\ upc[0] # "idle"
           /\ \A i \in Units \ {0} : upc[i] = "idle" /\ calls[i] = <<>>
           /\ streamLevel = config_logger(NoHandler, verbose)
    /\ (Dispatched /\ ncases = 0) =>
           /\ NoUnitLaunched
           /\ ran = <<>>
           /\ \A i \in Units : upc[i] = "idle" /\ calls[i] = <<>>
           /\ streamLevel = config_logger(NoHandler, verbose)

\* C23 witness: main() has returned from the run() of its one case, called
\* with a verbosity other than the two levels the batch path sets
C23_Witness ==
    /\ mpc = "done"
    /\ ncases = 1
    /\ upc[0] = "ret_system"
    /\ Called(0, "pflow")
    /\ verbose = DEBUG
    /\ streamLevel = DEBUG
====
